---------------------------- MODULE Spec2Model ----------------------------
(***************************************************************************)
(* Risk Engine: the two scoring engines (app/logic/risk_scoring.py and     *)
(* app/logic/risk_calculator.py), the recommendation generator, and the    *)
(* request handlers of app/routes.py over the risk_evaluations table.      *)
(*                                                                         *)
(* Number representation.  Python floats are modelled as scaled integers:  *)
(*   debtToEquity, negativeNewsScore, latePaymentsRate : hundredths        *)
(*   netProfit                                         : whole units       *)
(*   weights and sector multipliers                    : hundredths        *)
(*   factor values (0.2, 0.5, ...)                     : tenths            *)
(*   every score (both engines)                        : 1/10000           *)
(* so 0.7 is 7000, 1.0 is 10000, 71 is 710000, 85 is 850000, 100 is        *)
(* 1000000.  A string that the code lower-cases or capitalizes is a        *)
(* sequence of one-character strings; a text built by an f-string is the   *)
(* sequence of its fragments.                                              *)
(***************************************************************************)
EXTENDS Integers, Sequences, FiniteSets, TLC

-----------------------------------------------------------------------------
(* str.lower() and str.capitalize() *)

Lowers == <<"a","b","c","d","e","f","g","h","i","j","k","l","m",
            "n","o","p","q","r","s","t","u","v","w","x","y","z">>

Uppers == <<"A","B","C","D","E","F","G","H","I","J","K","L","M",
            "N","O","P","Q","R","S","T","U","V","W","X","Y","Z">>

LowerChar(c) ==
    IF \E i \in DOMAIN Uppers : Uppers[i] = c
    THEN Lowers[CHOOSE i \in DOMAIN Uppers : Uppers[i] = c]
    ELSE c

UpperChar(c) ==
    IF \E i \in DOMAIN Lowers : Lowers[i] = c
    THEN Uppers[CHOOSE i \in DOMAIN Lowers : Lowers[i] = c]
    ELSE c

Lower(s) == [i \in DOMAIN s |-> LowerChar(s[i])]

Capitalize(s) ==
    [i \in DOMAIN s |-> IF i = 1 THEN UpperChar(s[i]) ELSE LowerChar(s[i])]

-----------------------------------------------------------------------------
(* Sector names used as dictionary keys and list members in the code *)

S_technology == <<"t","e","c","h","n","o","l","o","g","y">>
S_healthcare == <<"h","e","a","l","t","h","c","a","r","e">>
S_finance == <<"f","i","n","a","n","c","e">>
S_retail == <<"r","e","t","a","i","l">>
S_manufacturing == <<"m","a","n","u","f","a","c","t","u","r","i","n","g">>
S_energy == <<"e","n","e","r","g","y">>
S_oil == <<"o","i","l">>
S_gas == <<"g","a","s">>
S_real_estate == <<"r","e","a","l","_","e","s","t","a","t","e">>
S_telecommunications ==
    <<"t","e","l","e","c","o","m","m","u","n","i","c","a","t","i","o","n","s">>
S_utilities == <<"u","t","i","l","i","t","i","e","s">>
S_consumer_goods == <<"c","o","n","s","u","m","e","r","_","g","o","o","d","s">>
S_general == <<"g","e","n","e","r","a","l">>

-----------------------------------------------------------------------------
(* app/logic/risk_scoring.py : the additive 0-1 engine *)

AdditiveRiskLevelExclusive(score) ==
    IF score > 7000 THEN "High Risk"
    ELSE IF score > 4000 THEN "Medium Risk"
    ELSE "Low Risk"

\* lines 85-91: the risk level bands of the additive engine
AdditiveRiskLevel(score) ==
    IF score >= 7000 THEN "High Risk"
    ELSE IF score >= 4000 THEN "Medium Risk"
    ELSE "Low Risk"

\* lines 80-83: cap the score at 1.0
AdditiveCap(score) == IF score > 10000 THEN 10000 ELSE score

AdditiveRulesInclusive(debt_to_equity, net_profit, negative_news_score, late_payments_rate, sector) ==
    << debt_to_equity >= 200,
       net_profit <= 0,
       negative_news_score >= 50,
       late_payments_rate >= 10,
       Lower(sector) \in {S_oil, S_gas, S_energy} >>

AdditiveRulesCaseSensitive(debt_to_equity, net_profit, negative_news_score, late_payments_rate, sector) ==
    << debt_to_equity > 200,
       net_profit < 0,
       negative_news_score > 50,
       late_payments_rate > 10,
       sector \in {S_oil, S_gas, S_energy} >>

\* lines 45, 51, 57, 63, 69: the five rule conditions, in evaluation order
AdditiveRules(debt_to_equity, net_profit, negative_news_score, late_payments_rate, sector) ==
    << debt_to_equity > 200,
       net_profit < 0,
       negative_news_score > 50,
       late_payments_rate > 10,
       Lower(sector) \in {S_oil, S_gas, S_energy} >>

AdditiveWeightsSubtractProfit == <<3000, -2000, 2000, 1500, 1000>>

AdditiveWeightsTypo == <<3500, 2000, 2000, 1500, 1000>>

\* lines 46, 52, 58, 64, 70: the amount each rule adds to the score
AdditiveWeights == <<3000, 2000, 2000, 1500, 1000>>

\* lines 47, 53, 59, 65, 71: the explanation each rule appends
AdditiveExplanations ==
    << <<"High debt-to-equity ratio">>,
       <<"Negative profitability">>,
       <<"Significant negative news">>,
       <<"High late payments rate">>,
       <<"High-volatility sector">> >>

\* lines 41-72: run the rules in order from score = 0.0, explanations = []
RECURSIVE AdditiveRun(_, _, _, _)
AdditiveRun(rules, i, score, explanations) ==
    IF i > Len(rules) THEN <<score, explanations>>
    ELSE IF rules[i]
         THEN AdditiveRun(rules, i + 1, score + AdditiveWeights[i],
                          Append(explanations, AdditiveExplanations[i]))
         ELSE AdditiveRun(rules, i + 1, score, explanations)

scoring_compute_risk_score_factors_added(user_id, company_name, debt_to_equity, net_profit, negative_news_score, late_payments_rate, sector, additional_factors) ==
    LET run == AdditiveRun(AdditiveRules(debt_to_equity, net_profit,
                                         negative_news_score,
                                         late_payments_rate, sector),
                           1, 0, <<>>)
        extra == IF additional_factors # <<>> /\ additional_factors[1] # <<>>
                 THEN additional_factors[1][1][2] * 10
                 ELSE 0
        score == AdditiveCap(run[1] + extra)
    IN  <<score, AdditiveRiskLevel(score), run[2]>>

\* risk_scoring.compute_risk_score: <<score, risk_level, explanations>>.
\* additional_factors is only iterated and logged (lines 75-78).
scoring_compute_risk_score(user_id, company_name, debt_to_equity, net_profit, negative_news_score, late_payments_rate, sector, additional_factors) ==
    LET run == AdditiveRun(AdditiveRules(debt_to_equity, net_profit,
                                         negative_news_score,
                                         late_payments_rate, sector),
                           1, 0, <<>>)
        score == AdditiveCap(run[1])
    IN  <<score, AdditiveRiskLevel(score), run[2]>>

-----------------------------------------------------------------------------
(* app/logic/risk_calculator.py : the weighted 0-100 engine *)

\* lines 14-20: WEIGHTS
WEIGHTS ==
    [debt_to_equity |-> 30, net_profit |-> 25,
     negative_news |-> 20, late_payments |-> 25]

\* line 84: sum(WEIGHTS.values())
SumWeights ==
    WEIGHTS.debt_to_equity + WEIGHTS.net_profit
        + WEIGHTS.negative_news + WEIGHTS.late_payments

\* lines 22-37: SECTOR_ADJUSTMENTS, a dictionary as a set of <<key, value>>
SECTOR_ADJUSTMENTS ==
    { <<S_technology, 100>>, <<S_healthcare, 90>>, <<S_finance, 120>>,
      <<S_retail, 110>>, <<S_manufacturing, 105>>, <<S_energy, 130>>,
      <<S_oil, 130>>, <<S_gas, 130>>, <<S_real_estate, 115>>,
      <<S_telecommunications, 95>>, <<S_utilities, 85>>,
      <<S_consumer_goods, 100>>, <<S_general, 100>> }

\* dict[key]
DictItem(dict, key) == (CHOOSE e \in dict : e[1] = key)[2]

\* dict.get(key, default)
DictGet(dict, key, default) ==
    IF \E e \in dict : e[1] = key
    THEN (CHOOSE e \in dict : e[1] = key)[2]
    ELSE default

\* lines 123-145: <<factor, explanation>>
calculate_debt_to_equity_factor(debt_to_equity) ==
    IF debt_to_equity <= 100
    THEN <<2, <<"Debt-to-equity ratio is within healthy range">> >>
    ELSE IF debt_to_equity <= 200
    THEN <<5, <<"Debt-to-equity ratio indicates moderate financial leverage">> >>
    ELSE IF debt_to_equity <= 300
    THEN <<7, <<"High debt-to-equity ratio increases financial risk">> >>
    ELSE <<10, <<"Very high debt-to-equity ratio indicates significant financial leverage">> >>

\* lines 147-172: <<factor, explanation>>
calculate_net_profit_factor(net_profit) ==
    IF net_profit > 500000
    THEN <<1, <<"Strong positive net profit indicates excellent financial health">> >>
    ELSE IF net_profit > 100000
    THEN <<3, <<"Positive net profit indicates good financial health">> >>
    ELSE IF net_profit > 0
    THEN <<5, <<"Modest positive net profit">> >>
    ELSE IF net_profit > -100000
    THEN <<7, <<"Negative net profit shows concerning financial performance">> >>
    ELSE <<10, <<"Significant losses indicate serious financial challenges">> >>

\* lines 174-196: <<factor, explanation>>
calculate_negative_news_factor(negative_news_score) ==
    IF negative_news_score <= 20
    THEN <<2, <<"Low negative news coverage">> >>
    ELSE IF negative_news_score <= 40
    THEN <<5, <<"Moderate negative news coverage">> >>
    ELSE IF negative_news_score <= 60
    THEN <<7, <<"Negative press coverage may impact business reputation">> >>
    ELSE <<10, <<"High negative news coverage suggests significant reputational risk">> >>

\* lines 198-220: <<factor, explanation>>
calculate_late_payments_factor(late_payments_rate) ==
    IF late_payments_rate <= 5
    THEN <<1, <<"Low rate of late payments suggests good cash flow management">> >>
    ELSE IF late_payments_rate <= 10
    THEN <<4, <<"Moderate rate of late payments">> >>
    ELSE IF late_payments_rate <= 20
    THEN <<7, <<"Elevated late payments rate may indicate cash flow issues">> >>
    ELSE <<10, <<"High rate of late payments suggests cash flow problems">> >>

\* lines 79-98 in IEEE-754 double arithmetic: of the operand combinations
\* whose decimal result meets a comparison of lines 101, 112, 114 or 244
\* (100, 71, 41, 85), the double result is that decimal exactly except for
\* these two, where it is 85.00000000000001, one unit in the last place
\* above 85.  The value is the excess in units of 1/10000.
FloatExcess(debt_factor, profit_factor, news_factor, payments_factor, sector_multiplier) ==
    IF <<debt_factor, profit_factor, news_factor, payments_factor,
         sector_multiplier>> \in { <<5, 10, 10, 10, 100>>, <<10, 7, 10, 7, 100>> }
    THEN 1
    ELSE 0

\* lines 79-84: weighted base score, in thousandths
BaseScore(debt_factor, profit_factor, news_factor, payments_factor) ==
    ((WEIGHTS.debt_to_equity * debt_factor
        + WEIGHTS.net_profit * profit_factor
        + WEIGHTS.negative_news * news_factor
        + WEIGHTS.late_payments * payments_factor) * 100) \div SumWeights

\* lines 90-95: the sector explanation, f"{sector.capitalize()} sector has ..."
SectorExplanation(sector, sector_multiplier) ==
    IF sector_multiplier > 100
    THEN Capitalize(sector) \o <<" sector has higher than average baseline risk">>
    ELSE IF sector_multiplier < 100
    THEN Capitalize(sector) \o <<" sector has lower than average baseline risk">>
    ELSE Capitalize(sector) \o <<" sector has moderate baseline risk">>

CalculatorCapOff(final_score) == final_score

\* lines 100-103: cap the score at 100
CalculatorCap(final_score) ==
    IF final_score > 1000000 THEN 1000000 ELSE final_score

CalculatorRiskLevelAdditiveBands(final_score) ==
    IF final_score >= 700000 THEN "High Risk"
    ELSE IF final_score >= 400000 THEN "Medium Risk"
    ELSE "Low Risk"

\* lines 111-117: the risk level bands of the weighted engine
CalculatorRiskLevel(final_score) ==
    IF final_score >= 710000 THEN "High Risk"
    ELSE IF final_score >= 410000 THEN "Medium Risk"
    ELSE "Low Risk"

\* risk_calculator.compute_risk_score: <<final_score, risk_level, explanations>>.
\* additional_factors is only iterated and logged (lines 106-109).
compute_risk_score(user_id, company_name, debt_to_equity, net_profit, negative_news_score, late_payments_rate, sector, additional_factors) ==
    LET debt == calculate_debt_to_equity_factor(debt_to_equity)
        profit == calculate_net_profit_factor(net_profit)
        news == calculate_negative_news_factor(negative_news_score)
        payments == calculate_late_payments_factor(late_payments_rate)
        base_score == BaseScore(debt[1], profit[1], news[1], payments[1])
        sector_key == Lower(sector)
        sector_multiplier ==
            DictGet(SECTOR_ADJUSTMENTS, sector_key,
                    DictItem(SECTOR_ADJUSTMENTS, S_general))
        explanations ==
            <<debt[2], profit[2], news[2], payments[2],
              SectorExplanation(sector, sector_multiplier)>>
        final_score ==
            CalculatorCap(base_score * sector_multiplier * 10
                            + FloatExcess(debt[1], profit[1], news[1],
                                          payments[1], sector_multiplier))
    IN  <<final_score, CalculatorRiskLevel(final_score), explanations>>

RecommendationsThreshold085(risk_level, score, sector) ==
    IF risk_level = "High Risk"
    THEN <<"Conduct immediate comprehensive financial review",
           "Develop debt reduction strategy",
           "Implement stricter accounts receivable policies">>
         \o (IF Lower(sector) \in {S_retail, S_manufacturing}
             THEN <<"Review inventory management to improve cash flow">>
             ELSE <<>>)
         \o (IF score > 8500
             THEN <<"Consider external financial expertise/restructuring">>
             ELSE <<>>)
    ELSE IF risk_level = "Medium Risk"
    THEN <<"Quarterly financial health monitoring recommended",
           "Develop action plan for identified risk areas">>
         \o (IF Lower(sector) \in {S_technology, S_finance}
             THEN <<"Evaluate competitive positioning in volatile market">>
             ELSE <<>>)
    ELSE <<"Maintain current financial practices",
           "Annual risk reassessment recommended">>

\* lines 222-258: get_risk_recommendations
get_risk_recommendations(risk_level, score, sector) ==
    IF risk_level = "High Risk"
    THEN <<"Conduct immediate comprehensive financial review",
           "Develop debt reduction strategy",
           "Implement stricter accounts receivable policies">>
         \o (IF Lower(sector) \in {S_retail, S_manufacturing}
             THEN <<"Review inventory management to improve cash flow">>
             ELSE <<>>)
         \o (IF score > 850000
             THEN <<"Consider external financial expertise/restructuring">>
             ELSE <<>>)
    ELSE IF risk_level = "Medium Risk"
    THEN <<"Quarterly financial health monitoring recommended",
           "Develop action plan for identified risk areas">>
         \o (IF Lower(sector) \in {S_technology, S_finance}
             THEN <<"Evaluate competitive positioning in volatile market">>
             ELSE <<>>)
    ELSE <<"Maintain current financial practices",
           "Annual risk reassessment recommended">>

-----------------------------------------------------------------------------
(* app/models.py : RiskEvaluation *)

\* json.dumps of a list of strings (models.py line 45): the text as tokens
json_dumps(value) ==
    << <<"[">> >>
    \o [i \in 1..(2 * Len(value) - 1) |->
            IF i % 2 = 1 THEN value[(i + 1) \div 2] ELSE <<",">>]
    \o << <<"]">> >>

\* json.loads of such a text (models.py line 39)
json_loads(text) ==
    [i \in 1..((Len(text) - 1) \div 2) |-> text[2 * i]]

\* lines 35-40: the explanations property
RiskEvaluation_explanations(row) ==
    IF row.explanations_json # <<>>
    THEN json_loads(row.explanations_json)
    ELSE <<>>

RiskEvaluationMixedColumns(user_id, company_name, sector, debt_to_equity, net_profit, negative_news_score, late_payments_rate, risk_score, recommendation, explanations) ==
    [id |-> <<>>,
     user_id |-> user_id,
     company_name |-> company_name,
     sector |-> sector,
     debt_to_equity |-> late_payments_rate,
     net_profit |-> net_profit,
     negative_news_score |-> negative_news_score,
     late_payments_rate |-> debt_to_equity,
     risk_score |-> risk_score,
     recommendation |-> recommendation,
     explanations_json |-> json_dumps(explanations)]

RiskEvaluationLowerSector(user_id, company_name, sector, debt_to_equity, net_profit, negative_news_score, late_payments_rate, risk_score, recommendation, explanations) ==
    [id |-> <<>>,
     user_id |-> user_id,
     company_name |-> company_name,
     sector |-> Lower(sector),
     debt_to_equity |-> debt_to_equity,
     net_profit |-> net_profit,
     negative_news_score |-> negative_news_score,
     late_payments_rate |-> late_payments_rate,
     risk_score |-> risk_score,
     recommendation |-> recommendation,
     explanations_json |-> json_dumps(explanations)]

\* routes.py lines 89-100 with models.py lines 19-31 and 42-45: the
\* RiskEvaluation object built from the request and the assessment.  id is
\* None until the INSERT; None is <<>>, a value v is <<v>>.
RiskEvaluation(user_id, company_name, sector, debt_to_equity, net_profit, negative_news_score, late_payments_rate, risk_score, recommendation, explanations) ==
    [id |-> <<>>,
     user_id |-> user_id,
     company_name |-> company_name,
     sector |-> sector,
     debt_to_equity |-> debt_to_equity,
     net_profit |-> net_profit,
     negative_news_score |-> negative_news_score,
     late_payments_rate |-> late_payments_rate,
     risk_score |-> risk_score,
     recommendation |-> recommendation,
     explanations_json |-> json_dumps(explanations)]

-----------------------------------------------------------------------------
(* Request and input domains *)

\* number of request slots (requests that may be in flight together)
MaxReq == 2

DebtValues == {100, 200, 250, 300, 600}
ProfitValues == {600000, 500000, 100000, 0, -10000, -100000}
NewsValues == {20, 40, 50, 60, 100}
LateValues == {5, 10, 20, 50}
SectorValues ==
    { S_general, S_technology, S_healthcare, S_finance, S_retail,
      S_manufacturing, S_energy, S_gas, S_real_estate, S_telecommunications,
      S_utilities, S_consumer_goods,
      <<"o","i","l">>, <<"O","i","l">>, <<"R","E","T","A","I","L">>,
      <<"b","i","o","t","e","c","h">> }

\* routes.py lines 19-28: RiskRequest. An optional value is <<>> (None) or
\* <<v>>; a dictionary is the sequence of its items, so additionalFactors
\* has its default {}.
RiskRequest(debtToEquity, netProfit, negativeNewsScore, latePaymentsRate, sector) ==
    [user_id |-> "user123",
     companyName |-> "Acme Corp",
     debtToEquity |-> debtToEquity,
     netProfit |-> netProfit,
     negativeNewsScore |-> negativeNewsScore,
     latePaymentsRate |-> latePaymentsRate,
     sector |-> sector,
     additionalFactors |-> << <<>> >>]

AllRequests ==
    { RiskRequest(d, p, n, l, s) :
        d \in DebtValues, p \in ProfitValues, n \in NewsValues,
        l \in LateValues, s \in SectorValues }

\* additional_factors of a scoring call: absent (None), the empty mapping,
\* and the mappings of tests/test_logic.py (values in hundredths)
AdditionalFactorsValues ==
    { <<>>,
      << <<>> >>,
      << << <<"countryRisk", 90>> >> >>,
      << << <<"countryRisk", 80>>, <<"marketShare", 5>> >> >> }

\* the requests of the multi-request workload: all four non-sector rules
\* just triggered; the request of tests/test_api.py (in its input classes);
\* every input at its worst in a high-volatility sector; a weighted score
\* of 85
ServiceRequests ==
    { RiskRequest(250, -10000, 60, 20, S_general),
      RiskRequest(250, -10000, 100, 20, S_technology),
      RiskRequest(600, -100000, 100, 50, <<"O","i","l">>),
      RiskRequest(200, -100000, 100, 50, S_technology) }

\* the request of the workload that follows every request to its end: the
\* one of tests/test_api.py (in its input classes)
LiveRequests == { RiskRequest(250, -10000, 100, 20, S_technology) }

-----------------------------------------------------------------------------
(* The service: app/routes.py over the risk_evaluations table *)

VARIABLES
    store,      \* the committed rows of risk_evaluations, in insertion order
    req,        \* per request slot: position, locals, session and response
    workload,   \* the slots in use and which requests they may carry
    call        \* a direct call of a scoring function and its result

vars == <<store, req, workload, call>>

None == <<>>

Some(v) == <<v>>

Idle ==
    [pc |-> "idle", handler |-> "none", session |-> "none", req |-> None,
     evaluation_id |-> None, score |-> None, risk_level |-> None,
     explanations |-> None, recommendations |-> None,
     db_evaluation |-> None, inserted |-> None, response |-> None]

NoCall ==
    [fn |-> "none", args |-> None, ret |-> None,
     args2 |-> None, ret2 |-> None]

\* the primary key the table gives the next inserted row
NextId == Len(store) + 1

\* the lookup without its filter: db.query(RiskEvaluation).first()
QueryFirstNoFilter(evaluation_id) ==
    IF store # <<>> THEN Some(store[1]) ELSE None

\* db.query(RiskEvaluation).filter(RiskEvaluation.id == evaluation_id).first()
QueryFirst(evaluation_id) ==
    IF \E i \in DOMAIN store : store[i].id = Some(evaluation_id)
    THEN Some(store[CHOOSE i \in DOMAIN store :
                        store[i].id = Some(evaluation_id)])
    ELSE None

\* routes.py lines 111-117: the 200 response of evaluate_risk
EvaluateResponse(r, evaluation_id) ==
    [status |-> 200,
     score |-> req[r].score[1],
     explanations |-> req[r].explanations[1],
     recommendation |-> req[r].risk_level[1],
     recommendations |-> req[r].recommendations[1],
     evaluation_id |-> evaluation_id]

\* routes.py lines 119-121: HTTPException(status_code=500, ...)
ComputationFailure ==
    [status |-> 500, detail |-> "Error calculating risk score"]

\* the request bodies the workload draws from
Requests ==
    IF workload.requests = "all" THEN AllRequests
    ELSE IF workload.requests = "live" THEN LiveRequests
    ELSE ServiceRequests

\* routes.py lines 58, 73-85 (database.py lines 53-55): get_db opens the
\* request's session; the engine and the recommendation generator run
BeginEvaluate(r) ==
    /\ req[r].pc = "idle"
    /\ \A q \in workload.slots : q < r => req[q].pc # "idle"
    /\ \E in \in Requests :
         LET result == compute_risk_score(in.user_id, in.companyName,
                                          in.debtToEquity, in.netProfit,
                                          in.negativeNewsScore,
                                          in.latePaymentsRate, in.sector,
                                          in.additionalFactors)
             recommendations ==
                 get_risk_recommendations(result[2], result[1], in.sector)
         IN  req' = [req EXCEPT ![r] =
                       [@ EXCEPT !.pc = "add",
                                 !.handler = "evaluate_risk",
                                 !.session = "open",
                                 !.req = Some(in),
                                 !.score = Some(result[1]),
                                 !.risk_level = Some(result[2]),
                                 !.explanations = Some(result[3]),
                                 !.recommendations = Some(recommendations)]]
    /\ UNCHANGED <<store, workload, call>>

\* routes.py lines 89-101: build the RiskEvaluation and db.add it; a failure
\* goes to the except clause of line 106
DbAdd(r) ==
    /\ req[r].pc = "add"
    /\ LET in == req[r].req[1]
           db_evaluation ==
               RiskEvaluation(in.user_id, in.companyName, in.sector,
                              in.debtToEquity, in.netProfit,
                              in.negativeNewsScore, in.latePaymentsRate,
                              req[r].score[1], req[r].risk_level[1],
                              req[r].explanations[1])
       IN  \E ok \in BOOLEAN :
             req' = [req EXCEPT ![r] =
                       IF ok
                       THEN [@ EXCEPT !.pc = "commit",
                                      !.db_evaluation = Some(db_evaluation)]
                       ELSE [@ EXCEPT !.pc = "rollback"]]
    /\ UNCHANGED <<store, workload, call>>

\* db.merge in place of db.add: the row of the same company is overwritten
DbCommitMerge(r) ==
    /\ req[r].pc = "commit"
    /\ \E ok \in BOOLEAN :
         IF ok
         THEN LET pending == req[r].db_evaluation[1]
                  same == { i \in DOMAIN store :
                              store[i].company_name = pending.company_name }
              IN  IF same = {}
                  THEN /\ store' = Append(store,
                                          [pending EXCEPT !.id = Some(NextId)])
                       /\ req' = [req EXCEPT ![r] =
                                    [@ EXCEPT !.pc = "refresh",
                                              !.inserted = Some(NextId)]]
                  ELSE LET i == CHOOSE i \in same : TRUE
                       IN  /\ store' = [store EXCEPT ![i] =
                                          [pending EXCEPT !.id = store[i].id]]
                           /\ req' = [req EXCEPT ![r] =
                                        [@ EXCEPT !.pc = "refresh",
                                                  !.inserted = store[i].id]]
         ELSE /\ store' = store
              /\ req' = [req EXCEPT ![r] = [@ EXCEPT !.pc = "rollback"]]
    /\ UNCHANGED <<workload, call>>

\* routes.py line 102: db.commit() inserts the pending row, which gets its
\* primary key, or fails and inserts nothing
DbCommit(r) ==
    /\ req[r].pc = "commit"
    /\ \E ok \in BOOLEAN :
         IF ok
         THEN LET row == [req[r].db_evaluation[1] EXCEPT !.id = Some(NextId)]
              IN  /\ store' = Append(store, row)
                  /\ req' = [req EXCEPT ![r] =
                               [@ EXCEPT !.pc = "refresh",
                                         !.inserted = Some(NextId)]]
         ELSE /\ store' = store
              /\ req' = [req EXCEPT ![r] = [@ EXCEPT !.pc = "rollback"]]
    /\ UNCHANGED <<workload, call>>

\* routes.py lines 103-104 and 111-117: db.refresh reloads the row, the id is
\* read and the response is returned; a failed refresh goes to line 106
DbRefresh(r) ==
    /\ req[r].pc = "refresh"
    /\ \E ok \in BOOLEAN :
         req' = [req EXCEPT ![r] =
                   IF ok
                   THEN LET evaluation_id ==
                                QueryFirst(req[r].inserted[1])[1].id
                        IN  [@ EXCEPT !.pc = "close",
                                      !.evaluation_id = evaluation_id,
                                      !.response =
                                          Some(EvaluateResponse(r, evaluation_id))]
                   ELSE [@ EXCEPT !.pc = "rollback"]]
    /\ UNCHANGED <<store, workload, call>>

\* routes.py lines 106-117: db.rollback() discards what is uncommitted, the
\* id is None and the response is returned; a rollback that raises leaves
\* the inner handler and is caught at line 119, which raises the 500
DbRollback(r) ==
    /\ req[r].pc = "rollback"
    /\ \E ok \in BOOLEAN :
         req' = [req EXCEPT ![r] =
                   IF ok
                   THEN [@ EXCEPT !.pc = "close",
                                  !.evaluation_id = None,
                                  !.response = Some(EvaluateResponse(r, None))]
                   ELSE [@ EXCEPT !.pc = "close",
                                  !.response = Some(ComputationFailure)]]
    /\ UNCHANGED <<store, workload, call>>

\* routes.py line 125 (database.py lines 53-55): get_db opens the session of
\* a get_evaluation request
BeginGetEvaluation(r) ==
    /\ req[r].pc = "idle"
    /\ \A q \in workload.slots : q < r => req[q].pc # "idle"
    /\ \E evaluation_id \in 1..(MaxReq + 1) :
         req' = [req EXCEPT ![r] =
                   [@ EXCEPT !.pc = "query",
                             !.handler = "get_evaluation",
                             !.session = "open",
                             !.req = Some([evaluation_id |-> evaluation_id])]]
    /\ UNCHANGED <<store, workload, call>>

\* routes.py lines 138-145: the row's __dict__ (the mapped columns) without
\* _sa_instance_state, with the recommendations added
GetEvaluationResponse(evaluation, recommendations) ==
    [status |-> 200,
     id |-> evaluation.id[1],
     user_id |-> evaluation.user_id,
     company_name |-> evaluation.company_name,
     sector |-> evaluation.sector,
     debt_to_equity |-> evaluation.debt_to_equity,
     net_profit |-> evaluation.net_profit,
     negative_news_score |-> evaluation.negative_news_score,
     late_payments_rate |-> evaluation.late_payments_rate,
     risk_score |-> evaluation.risk_score,
     recommendation |-> evaluation.recommendation,
     explanations_json |-> evaluation.explanations_json,
     recommendations |-> recommendations]

\* routes.py line 129: HTTPException(status_code=404, ...)
NotFound == [status |-> 404, detail |-> "Evaluation not found"]

\* routes.py lines 127-145: get_evaluation
GetEvaluation(r) ==
    /\ req[r].pc = "query"
    /\ LET evaluation == QueryFirst(req[r].req[1].evaluation_id)
       IN  req' = [req EXCEPT ![r] =
                     [@ EXCEPT !.pc = "close",
                               !.response =
                                  IF evaluation = None
                                  THEN Some(NotFound)
                                  ELSE Some(GetEvaluationResponse(
                                         evaluation[1],
                                         get_risk_recommendations(
                                           evaluation[1].recommendation,
                                           evaluation[1].risk_score,
                                           evaluation[1].sector)))]]
    /\ UNCHANGED <<store, workload, call>>

\* the company names of the listings: the one of the requests, and one
\* that no request carries
CompanyNames == {"Acme Corp", "Other Ltd"}

\* routes.py line 147 (database.py lines 53-55): get_db opens the session
\* of a get_company_evaluations request
BeginGetCompanyEvaluations(r) ==
    /\ req[r].pc = "idle"
    /\ \A q \in workload.slots : q < r => req[q].pc # "idle"
    /\ \E company_name \in CompanyNames :
         req' = [req EXCEPT ![r] =
                   [@ EXCEPT !.pc = "query_company",
                             !.handler = "get_company_evaluations",
                             !.session = "open",
                             !.req = Some([company_name |-> company_name])]]
    /\ UNCHANGED <<store, workload, call>>

\* routes.py lines 149-151: query.filter(company_name == ...).all()
QueryAll(company_name) ==
    LET Matches(row) == row.company_name = company_name
    IN  SelectSeq(store, Matches)

\* routes.py lines 149-153: get_company_evaluations returns the rows
GetCompanyEvaluations(r) ==
    /\ req[r].pc = "query_company"
    /\ req' = [req EXCEPT ![r] =
                 [@ EXCEPT !.pc = "close",
                           !.response =
                              Some([status |-> 200,
                                    evaluations |->
                                      QueryAll(req[r].req[1].company_name)])]]
    /\ UNCHANGED <<store, workload, call>>

\* routes.py lines 157-167 (database.py lines 60-71): health_check takes no
\* session; test_connection connects or fails, and the answer is "healthy"
\* either way
HealthCheck(r) ==
    /\ req[r].pc = "idle"
    /\ \A q \in workload.slots : q < r => req[q].pc # "idle"
    /\ \E test_connection \in BOOLEAN :
         req' = [req EXCEPT ![r] =
                   [@ EXCEPT !.pc = "done",
                             !.handler = "health_check",
                             !.response =
                                Some([status |-> 200,
                                      health |-> "healthy",
                                      database |-> IF test_connection
                                                   THEN "connected"
                                                   ELSE "disconnected"])]]
    /\ UNCHANGED <<store, workload, call>>

\* db.close() after the yield, without try/finally: a handler that raises
\* skips it
CloseSessionOnReturn(r) ==
    /\ req[r].pc = "close"
    /\ req[r].response[1].status = 200
    /\ req' = [req EXCEPT ![r] = [@ EXCEPT !.pc = "done", !.session = "closed"]]
    /\ UNCHANGED <<store, workload, call>>

\* database.py lines 56-57: the finally clause of get_db closes the session
CloseSession(r) ==
    /\ req[r].pc = "close"
    /\ req' = [req EXCEPT ![r] = [@ EXCEPT !.pc = "done", !.session = "closed"]]
    /\ UNCHANGED <<store, workload, call>>

\* the steps of a request that has got its session: the handler's body and
\* the release of the session
Run(r) ==
    \/ DbAdd(r)
    \/ DbCommit(r)
    \/ DbRefresh(r)
    \/ DbRollback(r)
    \/ GetEvaluation(r)
    \/ GetCompanyEvaluations(r)
    \/ CloseSession(r)

Init ==
    /\ store = <<>>
    /\ workload = [slots |-> 1..MaxReq, requests |-> "service"]
    /\ req = [r \in workload.slots |-> Idle]
    /\ call = NoCall

\* one request at a time, over the whole input domain
InitEval ==
    /\ store = <<>>
    /\ workload = [slots |-> {1}, requests |-> "all"]
    /\ req = [r \in workload.slots |-> Idle]
    /\ call = NoCall

\* a direct call of risk_scoring.compute_risk_score (tests/test_logic.py)
CallRiskScoring ==
    /\ call.fn = "none"
    /\ call.args # None
    /\ "debtToEquity" \in DOMAIN call.args[1]
    /\ LET in == call.args[1]
       IN  call' = [call EXCEPT
                      !.fn = "risk_scoring.compute_risk_score",
                      !.ret = Some(scoring_compute_risk_score(
                                     in.user_id, in.companyName,
                                     in.debtToEquity, in.netProfit,
                                     in.negativeNewsScore, in.latePaymentsRate,
                                     in.sector, in.additionalFactors))]
    /\ UNCHANGED <<store, req, workload>>

\* a direct call of risk_calculator.compute_risk_score
CallRiskCalculator ==
    /\ call.fn = "none"
    /\ call.args # None
    /\ "debtToEquity" \in DOMAIN call.args[1]
    /\ LET in == call.args[1]
       IN  call' = [call EXCEPT
                      !.fn = "risk_calculator.compute_risk_score",
                      !.ret = Some(compute_risk_score(
                                     in.user_id, in.companyName,
                                     in.debtToEquity, in.netProfit,
                                     in.negativeNewsScore, in.latePaymentsRate,
                                     in.sector, in.additionalFactors))]
    /\ UNCHANGED <<store, req, workload>>

\* risk_scoring.compute_risk_score applied to the fields of a request
ScoringOf(in) ==
    scoring_compute_risk_score(in.user_id, in.companyName, in.debtToEquity,
                               in.netProfit, in.negativeNewsScore,
                               in.latePaymentsRate, in.sector,
                               in.additionalFactors)

\* risk_calculator.compute_risk_score applied to the fields of a request
CalculatorOf(in) ==
    compute_risk_score(in.user_id, in.companyName, in.debtToEquity,
                       in.netProfit, in.negativeNewsScore,
                       in.latePaymentsRate, in.sector, in.additionalFactors)

\* tests/test_logic.py lines 47-72: two calls of the additive engine with
\* the same parameters but a different sector
CallRiskScoringSectors ==
    /\ call.fn = "none"
    /\ call.args # None
    /\ "debtToEquity" \in DOMAIN call.args[1]
    /\ \E sector \in SectorValues \ {call.args[1].sector} :
         LET in  == call.args[1]
             in2 == [in EXCEPT !.sector = sector]
         IN  call' = [call EXCEPT
                        !.fn = "risk_scoring.compute_risk_score, sectors",
                        !.ret = Some(ScoringOf(in)),
                        !.args2 = Some(in2),
                        !.ret2 = Some(ScoringOf(in2))]
    /\ UNCHANGED <<store, req, workload>>

\* tests/test_logic.py lines 93-109: two calls of the additive engine with
\* the same parameters but other additional_factors
CallRiskScoringFactors ==
    /\ call.fn = "none"
    /\ call.args # None
    /\ "debtToEquity" \in DOMAIN call.args[1]
    /\ \E additional_factors \in AdditionalFactorsValues :
         LET in  == call.args[1]
             in2 == [in EXCEPT !.additionalFactors = additional_factors]
         IN  /\ in2 # in
             /\ call' = [call EXCEPT
                           !.fn = "risk_scoring.compute_risk_score, factors",
                           !.ret = Some(ScoringOf(in)),
                           !.args2 = Some(in2),
                           !.ret2 = Some(ScoringOf(in2))]
    /\ UNCHANGED <<store, req, workload>>

\* the same two calls of the weighted engine
CallRiskCalculatorFactors ==
    /\ call.fn = "none"
    /\ call.args # None
    /\ "debtToEquity" \in DOMAIN call.args[1]
    /\ \E additional_factors \in AdditionalFactorsValues :
         LET in  == call.args[1]
             in2 == [in EXCEPT !.additionalFactors = additional_factors]
         IN  /\ in2 # in
             /\ call' = [call EXCEPT
                           !.fn = "risk_calculator.compute_risk_score, factors",
                           !.ret = Some(CalculatorOf(in)),
                           !.args2 = Some(in2),
                           !.ret2 = Some(CalculatorOf(in2))]
    /\ UNCHANGED <<store, req, workload>>

\* the risk levels given to the recommendation generator: the three levels
\* of the engines and two values that are none of them
RiskLevelValues ==
    {"High Risk", "Medium Risk", "Low Risk", "high risk", "Critical"}

\* the scores given to the recommendation generator, in 1/10000: both
\* engines' ranges, 85 and the double next above it
ScoreValues == {0, 7000, 8500, 9500, 410000, 710000, 850000, 850001, 1000000}

\* the arguments of a direct call of get_risk_recommendations
AllRecommendationArgs ==
    { [risk_level |-> risk_level, score |-> score, sector |-> sector] :
        risk_level \in RiskLevelValues, score \in ScoreValues,
        sector \in SectorValues }

\* a direct call of risk_calculator.get_risk_recommendations
CallRecommendations ==
    /\ call.fn = "none"
    /\ call.args # None
    /\ "risk_level" \in DOMAIN call.args[1]
    /\ LET in == call.args[1]
       IN  call' = [call EXCEPT
                      !.fn = "get_risk_recommendations",
                      !.ret = Some(get_risk_recommendations(
                                     in.risk_level, in.score, in.sector))]
    /\ UNCHANGED <<store, req, workload>>

\* the scoring functions and the recommendation generator called directly,
\* over their whole input domains
InitLogic ==
    /\ store = <<>>
    /\ workload = [slots |-> {}, requests |-> "all"]
    /\ req = [r \in workload.slots |-> Idle]
    /\ \/ call \in { [NoCall EXCEPT !.args = Some(in)] : in \in AllRequests }
       \/ call \in { [NoCall EXCEPT !.args = Some(in)] :
                       in \in AllRecommendationArgs }

NextLogic ==
    \/ CallRiskScoring
    \/ CallRiskCalculator
    \/ CallRiskScoringSectors
    \/ CallRiskScoringFactors
    \/ CallRiskCalculatorFactors
    \/ CallRecommendations

SpecLogic == InitLogic /\ [][NextLogic]_vars

Next ==
    \/ \E r \in workload.slots : BeginEvaluate(r)
    \/ \E r \in workload.slots : DbAdd(r)
    \/ \E r \in workload.slots : DbCommit(r)
    \/ \E r \in workload.slots : DbRefresh(r)
    \/ \E r \in workload.slots : DbRollback(r)
    \/ \E r \in workload.slots : BeginGetEvaluation(r)
    \/ \E r \in workload.slots : GetEvaluation(r)
    \/ \E r \in workload.slots : BeginGetCompanyEvaluations(r)
    \/ \E r \in workload.slots : GetCompanyEvaluations(r)
    \/ \E r \in workload.slots : HealthCheck(r)
    \/ \E r \in workload.slots : CloseSession(r)

Spec == Init /\ [][Next]_vars

SpecEval == InitEval /\ [][Next]_vars

\* the requests in flight together, each carrying the one request body
InitLive ==
    /\ store = <<>>
    /\ workload = [slots |-> 1..MaxReq, requests |-> "live"]
    /\ req = [r \in workload.slots |-> Idle]
    /\ call = NoCall

\* every request runs on a worker thread of its own, which keeps running:
\* a request that can take a step of its handler or release its session
\* eventually does
SpecLive ==
    InitLive /\ [][Next]_vars /\ \A r \in 1..MaxReq : WF_vars(Run(r))

-----------------------------------------------------------------------------
(* Properties of the additive engine, over direct calls (SpecLogic) *)

ScoringReturned == call.fn = "risk_scoring.compute_risk_score"

Has(seq, x) == \E i \in DOMAIN seq : seq[i] = x

\* the triggered rules of spec section 4.1 for a request, as 0/1 flags
Triggered(in) ==
    [debt |-> IF in.debtToEquity > 200 THEN 1 ELSE 0,
     profit |-> IF in.netProfit < 0 THEN 1 ELSE 0,
     news |-> IF in.negativeNewsScore > 50 THEN 1 ELSE 0,
     late |-> IF in.latePaymentsRate > 10 THEN 1 ELSE 0,
     sector |-> IF Lower(in.sector) \in {S_oil, S_gas, S_energy} THEN 1 ELSE 0]

WeightSum(t) ==
    3000 * t.debt + 2000 * t.profit + 2000 * t.news + 1500 * t.late
        + 1000 * t.sector

TriggeredStrings(t) ==
    (IF t.debt = 1 THEN << <<"High debt-to-equity ratio">> >> ELSE <<>>)
    \o (IF t.profit = 1 THEN << <<"Negative profitability">> >> ELSE <<>>)
    \o (IF t.news = 1 THEN << <<"Significant negative news">> >> ELSE <<>>)
    \o (IF t.late = 1 THEN << <<"High late payments rate">> >> ELSE <<>>)
    \o (IF t.sector = 1 THEN << <<"High-volatility sector">> >> ELSE <<>>)

\* C2: the additive engine's score is the sum of the weights of exactly the
\* triggered rules (0.30, 0.20, 0.20, 0.15, 0.10), capped at 1.0, and its
\* explanations are exactly the triggered rules' strings in rule order; the
\* comparisons are strict, so an input on a threshold triggers nothing.
C2_ScoreIsSumOfTriggeredWeights ==
    ScoringReturned =>
        LET in == call.args[1]
            t == Triggered(in)
            sum == WeightSum(t)
        IN  /\ call.ret[1][1] = IF sum > 10000 THEN 10000 ELSE sum
            /\ call.ret[1][3] = TriggeredStrings(t)
            /\ (in.debtToEquity = 200 =>
                    ~Has(call.ret[1][3], <<"High debt-to-equity ratio">>))
            /\ (in.netProfit = 0 =>
                    ~Has(call.ret[1][3], <<"Negative profitability">>))
            /\ (in.negativeNewsScore = 50 =>
                    ~Has(call.ret[1][3], <<"Significant negative news">>))
            /\ (in.latePaymentsRate = 10 =>
                    ~Has(call.ret[1][3], <<"High late payments rate">>))

\* every input on its threshold, no volatile sector: nothing triggers
C2_Witness ==
    /\ ScoringReturned
    /\ call.args[1].debtToEquity = 200
    /\ call.args[1].netProfit = 0
    /\ call.args[1].negativeNewsScore = 50
    /\ call.args[1].latePaymentsRate = 10
    /\ call.args[1].sector = S_general
    /\ call.ret[1][1] = 0
    /\ call.ret[1][3] = <<>>

\* C3: the additive engine's score always satisfies 0.0 <= score <= 1.0.
C3_ScoreInUnitInterval ==
    ScoringReturned => (call.ret[1][1] >= 0 /\ call.ret[1][1] <= 10000)

\* the largest score the engine returns: all five rules triggered
C3_Witness ==
    /\ ScoringReturned
    /\ Len(call.ret[1][3]) = 5
    /\ call.ret[1][1] = 9500

\* C4: the additive engine's risk level is a function of the score alone:
\* High Risk iff score >= 0.7, Medium Risk iff 0.4 <= score < 0.7, Low Risk
\* iff score < 0.4; exactly one of the three holds.
C4_RiskLevelBands ==
    ScoringReturned =>
        LET score == call.ret[1][1]
            risk_level == call.ret[1][2]
        IN  /\ risk_level \in {"High Risk", "Medium Risk", "Low Risk"}
            /\ (risk_level = "High Risk" <=> score >= 7000)
            /\ (risk_level = "Medium Risk" <=> (score >= 4000 /\ score < 7000))
            /\ (risk_level = "Low Risk" <=> score < 4000)

\* a score exactly on the lower bound of the High Risk band
C4_Witness ==
    /\ ScoringReturned
    /\ call.ret[1][1] = 7000
    /\ call.ret[1][2] = "High Risk"

\* the request of the spec's clamping scenario
IsClampScenario(in) ==
    /\ in.debtToEquity = 600
    /\ in.netProfit = -10000
    /\ in.negativeNewsScore = 100
    /\ in.latePaymentsRate = 50
    /\ in.sector = S_oil

\* C9 as stated: with netProfit = -10000, negativeNewsScore = 1.0,
\* latePaymentsRate = 0.5, sector = "oil" and debtToEquity = 6.0 the additive
\* engine's score clamps to exactly 1.0.
C9_ClampsToOne ==
    (ScoringReturned /\ IsClampScenario(call.args[1]))
        => call.ret[1][1] = 10000

\* C9 amended: for that input the additive engine's score is 0.95, the sum
\* of the five weights, with all five explanations; the cap does not act.
C9_ScoreIsSumOfFiveWeights ==
    (ScoringReturned /\ IsClampScenario(call.args[1]))
        => /\ call.ret[1][1] = 9500
           /\ call.ret[1][2] = "High Risk"
           /\ Len(call.ret[1][3]) = 5

C9_Witness ==
    /\ ScoringReturned
    /\ IsClampScenario(call.args[1])
    /\ call.ret[1][1] < 10000

-----------------------------------------------------------------------------
(* Properties of POST /api/evaluate, one request over the whole input      *)
(* domain (SpecEval)                                                       *)

\* the slots whose evaluate_risk request has been answered with a 200
Evaluated ==
    { r \in workload.slots :
        /\ req[r].handler = "evaluate_risk"
        /\ req[r].response # None
        /\ req[r].response[1].status = 200 }

AdditiveOf(in) ==
    scoring_compute_risk_score(in.user_id, in.companyName, in.debtToEquity,
                               in.netProfit, in.negativeNewsScore,
                               in.latePaymentsRate, in.sector,
                               in.additionalFactors)

WeightedOf(in) ==
    compute_risk_score(in.user_id, in.companyName, in.debtToEquity,
                       in.netProfit, in.negativeNewsScore,
                       in.latePaymentsRate, in.sector, in.additionalFactors)

\* C1 as stated: the score, risk level and explanations returned by POST
\* /api/evaluate are exactly those of the additive 0-1 engine for the same
\* input, and the returned score lies in [0.0, 1.0].
C1_ResponseIsAdditiveEngine ==
    \A r \in Evaluated :
        LET resp == req[r].response[1]
            expected == AdditiveOf(req[r].req[1])
        IN  /\ resp.score = expected[1]
            /\ resp.recommendation = expected[2]
            /\ resp.explanations = expected[3]
            /\ resp.score >= 0
            /\ resp.score <= 10000

\* C1 amended: the score, risk level and explanations of every 200 response
\* of POST /api/evaluate are exactly those of the weighted 0-100 engine
\* (risk_calculator.compute_risk_score) for the same input, and the returned
\* score lies in [0, 100].
C1_ResponseIsWeightedEngine ==
    \A r \in Evaluated :
        LET resp == req[r].response[1]
            expected == WeightedOf(req[r].req[1])
        IN  /\ resp.score = expected[1]
            /\ resp.recommendation = expected[2]
            /\ resp.explanations = expected[3]
            /\ resp.score >= 0
            /\ resp.score <= 1000000

\* a 200 response whose score is the cap, 100, from an uncapped 130
C1_Witness ==
    \E r \in Evaluated :
        /\ req[r].req[1].debtToEquity = 600
        /\ req[r].req[1].netProfit = -100000
        /\ req[r].req[1].negativeNewsScore = 100
        /\ req[r].req[1].latePaymentsRate = 50
        /\ req[r].req[1].sector = S_gas
        /\ req[r].response[1].score = 1000000

\* the four non-sector rules of spec section 4.1 all trigger
AllFourTrigger(in) ==
    /\ in.debtToEquity > 200
    /\ in.netProfit < 0
    /\ in.negativeNewsScore > 50
    /\ in.latePaymentsRate > 10

\* C8 as stated: for every request to POST /api/evaluate in which all four
\* non-sector rules trigger, whatever the sector, the risk level in the
\* response (field recommendation) is "High Risk".
C8_AllFourTriggerIsHighRisk ==
    \A r \in Evaluated :
        AllFourTrigger(req[r].req[1])
            => req[r].response[1].recommendation = "High Risk"

\* C8 amended: for every such request the response's risk level is "High
\* Risk" or "Medium Risk", never "Low Risk" (the score is at least 59.5),
\* and it is "High Risk" exactly when the score is at least 71; the request
\* of tests/test_api.py (debt in (2,3], loss under 100000, news above 0.6,
\* late payments in (0.1,0.2], sector technology) scores 76, "High Risk".
C8_AllFourTriggerIsMediumOrHigh ==
    \A r \in Evaluated :
        LET in == req[r].req[1]
            resp == req[r].response[1]
        IN  AllFourTrigger(in) =>
              /\ resp.recommendation \in {"High Risk", "Medium Risk"}
              /\ resp.score >= 595000
              /\ (resp.recommendation = "High Risk" <=> resp.score >= 710000)
              /\ (/\ in.debtToEquity = 250
                  /\ in.netProfit = -10000
                  /\ in.negativeNewsScore = 100
                  /\ in.latePaymentsRate = 20
                  /\ in.sector = S_technology
                  => (resp.score = 760000 /\ resp.recommendation = "High Risk"))

\* all four rules triggered, sector general: score 70, "Medium Risk"
C8_Witness ==
    \E r \in Evaluated :
        /\ AllFourTrigger(req[r].req[1])
        /\ req[r].req[1].sector = S_general
        /\ req[r].response[1].score = 700000
        /\ req[r].response[1].recommendation = "Medium Risk"

\* the engine outputs that belong to a stored row's own input columns
AdditiveOfRow(row) ==
    scoring_compute_risk_score(row.user_id, row.company_name,
                               row.debt_to_equity, row.net_profit,
                               row.negative_news_score, row.late_payments_rate,
                               row.sector, <<>>)

WeightedOfRow(row) ==
    compute_risk_score(row.user_id, row.company_name, row.debt_to_equity,
                       row.net_profit, row.negative_news_score,
                       row.late_payments_rate, row.sector, <<>>)

\* C7 as stated: each stored evaluation's risk_score and stored risk level
\* (column recommendation) equal the score and risk level the additive
\* engine of spec section 4.1 computes from the row's own stored inputs.
C7_StoredMatchesAdditiveEngine ==
    \A i \in DOMAIN store :
        /\ store[i].risk_score = AdditiveOfRow(store[i])[1]
        /\ store[i].recommendation = AdditiveOfRow(store[i])[2]

\* C7 amended: each stored evaluation's risk_score and stored risk level
\* equal the score and risk level the weighted 0-100 engine
\* (risk_calculator.compute_risk_score) computes from the row's own stored
\* debt_to_equity, net_profit, negative_news_score, late_payments_rate and
\* sector.
C7_StoredMatchesWeightedEngine ==
    \A i \in DOMAIN store :
        /\ store[i].risk_score = WeightedOfRow(store[i])[1]
        /\ store[i].recommendation = WeightedOfRow(store[i])[2]

\* a stored row whose sector is not in lower case
C7_Witness ==
    \E i \in DOMAIN store :
        /\ store[i].sector = <<"R","E","T","A","I","L">>
        /\ store[i].debt_to_equity = 300
        /\ store[i].late_payments_rate = 5
        /\ store[i].recommendation = "Medium Risk"

-----------------------------------------------------------------------------
(* Properties of the service under concurrent requests and storage         *)
(* failures (Spec)                                                         *)

\* the slots whose evaluate_risk request has been answered
Answered ==
    { r \in workload.slots :
        req[r].handler = "evaluate_risk" /\ req[r].response # None }

\* a step of persisting failed: the handler's evaluation_id was never set
\* from the refreshed row
PersistFailed(r) == req[r].evaluation_id = None

\* C5: when any step of persisting the evaluation fails (add, commit,
\* refresh, or the rollback that follows), POST /api/evaluate still ends in
\* a 200 response carrying the computed score, risk level, explanations and
\* recommendations, with evaluation_id null; never in a 500.
C5_StorageFailureStill200 ==
    \A r \in Answered :
        LET resp == req[r].response[1]
        IN  PersistFailed(r) =>
              /\ resp.status = 200
              /\ resp.score = req[r].score[1]
              /\ resp.recommendation = req[r].risk_level[1]
              /\ resp.explanations = req[r].explanations[1]
              /\ resp.recommendations = req[r].recommendations[1]
              /\ resp.evaluation_id = None

\* C6: each request has created at most one stored record, and it has
\* created one exactly when its response carries a non-null evaluation_id,
\* which is then that record's id; a response with evaluation_id null means
\* that no record of that request is in the store.
C6_RecordIffEvaluationId ==
    /\ Len(store) <= Cardinality({ r \in workload.slots :
                                     req[r].handler = "evaluate_risk" })
    /\ \A r \in Evaluated :
          LET resp == req[r].response[1]
          IN  /\ (resp.evaluation_id # None <=> req[r].inserted # None)
              /\ (resp.evaluation_id # None
                    => resp.evaluation_id = req[r].inserted)

RestructuringAdvice == "Consider external financial expertise/restructuring"

\* the 200 responses of evaluate_risk and get_evaluation, each as
\* <<risk level, score, recommendations>>
Responses200 ==
    { <<req[r].response[1].recommendation, req[r].response[1].score,
        req[r].response[1].recommendations>> : r \in Evaluated }
    \cup
    { <<req[r].response[1].recommendation, req[r].response[1].risk_score,
        req[r].response[1].recommendations>> :
        r \in { q \in workload.slots :
                  /\ req[q].handler = "get_evaluation"
                  /\ req[q].response # None
                  /\ req[q].response[1].status = 200 } }

\* C10 as stated: score > 85 is never true for a score that reaches the
\* recommendation generator from the evaluate endpoint or a stored record:
\* no response of POST /api/evaluate or GET /api/evaluations/{id} contains
\* "Consider external financial expertise/restructuring".
C10_NeverRestructuringAdvice ==
    \A x \in Responses200 : ~Has(x[3], RestructuringAdvice)

\* C10 amended: the scores that reach the recommendation generator are on
\* the 0-100 scale, and a 200 response of POST /api/evaluate or GET
\* /api/evaluations/{id} contains "Consider external financial
\* expertise/restructuring" exactly when its risk level is "High Risk" and
\* its score is greater than 85.
C10_RestructuringAdviceIffAbove85 ==
    \A x \in Responses200 :
        Has(x[3], RestructuringAdvice)
            <=> (x[1] = "High Risk" /\ x[2] > 850000)

\* a looked-up record of score 100 with the advice
C10_Witness ==
    \E r \in workload.slots :
          /\ req[r].handler = "get_evaluation"
          /\ req[r].response # None
          /\ req[r].response[1].status = 200
          /\ req[r].response[1].risk_score = 1000000
          /\ Has(req[r].response[1].recommendations, RestructuringAdvice)

-----------------------------------------------------------------------------
(* Lookup by id of an id that no stored record has (Spec) *)

\* some stored record has the id
Stored(evaluation_id) ==
    \E i \in DOMAIN store : store[i].id = Some(evaluation_id)

\* the step in which get_evaluation request r queries the store and answers
Answers(r) ==
    /\ req[r].handler = "get_evaluation"
    /\ req[r].pc = "query"
    /\ req'[r].pc = "close"

\* C11: a GET /api/evaluations/{id} whose id no stored record has when the
\* store is queried (an id that was never inserted, or the id an evaluate
\* request would have got had its storage not failed) is answered with
\* status 404 and detail "Evaluation not found", which is not the 500
\* computation failure, and the step leaves the store as it was.
C11_UnknownIdIsNotFound ==
    [][\A r \in workload.slots :
          (Answers(r) /\ ~Stored(req[r].req[1].evaluation_id))
             => /\ req'[r].response # None
                /\ req'[r].response[1].status = 404
                /\ req'[r].response[1].detail = "Evaluation not found"
                /\ req'[r].response[1].status # ComputationFailure.status
                /\ req'[r].response[1].detail # ComputationFailure.detail
                /\ store' = store]_vars

\* a 404 for the id an evaluate request lost to a storage failure
C11_Witness ==
    \E r, q \in workload.slots :
          /\ req[r].handler = "get_evaluation"
          /\ req[r].response = Some(NotFound)
          /\ req[q].handler = "evaluate_risk"
          /\ req[q].pc = "done"
          /\ req[q].inserted = None
          /\ req[q].response[1].status = 200
          /\ req[q].response[1].evaluation_id = None
          /\ ~Stored(req[r].req[1].evaluation_id)

-----------------------------------------------------------------------------
(* Two calls of a scoring engine on inputs that differ in one field
   (SpecLogic) *)

\* the additive engine was called on two inputs that differ in the sector
SectorsCompared == call.fn = "risk_scoring.compute_risk_score, sectors"

\* the sector is oil, gas or energy in some letter case
IsHighVolatility(sector) == Lower(sector) \in {S_oil, S_gas, S_energy}

\* C12: for two inputs to the additive engine that are identical except
\* that the first has a sector in {oil, gas, energy} (any letter case) and
\* the second a sector outside that set, the first score is strictly
\* greater than the second and equals it plus 0.10, and "High-volatility
\* sector" is among the first call's explanations and not the second's.
C12_VolatileSectorAddsTenth ==
    (/\ SectorsCompared
     /\ IsHighVolatility(call.args[1].sector)
     /\ ~IsHighVolatility(call.args2[1].sector))
        => /\ [call.args[1] EXCEPT !.sector = call.args2[1].sector]
                 = call.args2[1]
           /\ call.ret[1][1] > call.ret2[1][1]
           /\ call.ret[1][1] = call.ret2[1][1] + 1000
           /\ Has(call.ret[1][3], <<"High-volatility sector">>)
           /\ ~Has(call.ret2[1][3], <<"High-volatility sector">>)

\* "Oil" against "technology" with every other rule triggered: 0.95, 0.85
C12_Witness ==
    /\ SectorsCompared
    /\ call.args[1].sector = <<"O","i","l">>
    /\ call.args2[1].sector = S_technology
    /\ call.ret[1][1] = 9500
    /\ call.ret2[1][1] = 8500

\* a scoring engine was called on two inputs that differ in additional_factors
FactorsCompared ==
    call.fn \in {"risk_scoring.compute_risk_score, factors",
                 "risk_calculator.compute_risk_score, factors"}

\* C13: two inputs to a scoring engine (the additive one or the weighted
\* one) that differ only in additionalFactors (absent, empty, or a mapping)
\* get the same score, the same risk level and the same explanations.
C13_AdditionalFactorsHaveNoEffect ==
    FactorsCompared
        => /\ call.args[1].additionalFactors # call.args2[1].additionalFactors
           /\ [call.args[1] EXCEPT !.additionalFactors =
                                     call.args2[1].additionalFactors]
                 = call.args2[1]
           /\ call.ret[1][1] = call.ret2[1][1]
           /\ call.ret[1][2] = call.ret2[1][2]
           /\ call.ret[1][3] = call.ret2[1][3]

\* the additive engine with no mapping and with {"countryRisk": 0.9}, on an
\* input that triggers rules
C13_Witness ==
    /\ call.fn = "risk_scoring.compute_risk_score, factors"
    /\ call.args[1].additionalFactors = << <<>> >>
    /\ call.args2[1].additionalFactors = << << <<"countryRisk", 90>> >> >>
    /\ call.ret[1][1] = 7000
    /\ call.ret2[1][2] = "High Risk"

-----------------------------------------------------------------------------
(* The recommendation generator, over direct calls (SpecLogic) *)

RecommendationsReturned == call.fn = "get_risk_recommendations"

HighRiskFixed ==
    <<"Conduct immediate comprehensive financial review",
      "Develop debt reduction strategy",
      "Implement stricter accounts receivable policies">>

InventoryAdvice == "Review inventory management to improve cash flow"

MediumRiskFixed ==
    <<"Quarterly financial health monitoring recommended",
      "Develop action plan for identified risk areas">>

CompetitiveAdvice == "Evaluate competitive positioning in volatile market"

LowRiskFixed ==
    <<"Maintain current financial practices",
      "Annual risk reassessment recommended">>

\* the recommendations a risk level can give
LevelRecommendations(risk_level) ==
    IF risk_level = "High Risk"
    THEN {HighRiskFixed[i] : i \in 1..3} \cup {InventoryAdvice, RestructuringAdvice}
    ELSE IF risk_level = "Medium Risk"
    THEN {MediumRiskFixed[i] : i \in 1..2} \cup {CompetitiveAdvice}
    ELSE {LowRiskFixed[i] : i \in 1..2}

\* C14: get_risk_recommendations returns, in order: for "High Risk" the
\* three fixed recommendations, then the inventory recommendation exactly
\* when the lower-cased sector is retail or manufacturing, then the
\* restructuring recommendation exactly when the score is above 85; for
\* "Medium Risk" the two fixed ones, then the competitive-positioning one
\* exactly when the lower-cased sector is technology or finance; for any
\* other risk level the two Low Risk recommendations. The result has 2 to 5
\* entries, all of the one level.
C14_RecommendationsByLevel ==
    RecommendationsReturned
        => LET in == call.args[1]
               recommendations == call.ret[1]
               inventory == Lower(in.sector) \in {S_retail, S_manufacturing}
               restructuring == in.score > 850000
               competitive == Lower(in.sector) \in {S_technology, S_finance}
           IN  /\ in.risk_level = "High Risk"
                    => recommendations =
                         HighRiskFixed
                           \o (IF inventory THEN <<InventoryAdvice>> ELSE <<>>)
                           \o (IF restructuring THEN <<RestructuringAdvice>>
                               ELSE <<>>)
               /\ in.risk_level = "Medium Risk"
                    => recommendations =
                         MediumRiskFixed
                           \o (IF competitive THEN <<CompetitiveAdvice>>
                               ELSE <<>>)
               /\ in.risk_level \notin {"High Risk", "Medium Risk"}
                    => recommendations = LowRiskFixed
               /\ Len(recommendations) \in 2..5
               /\ \A i \in DOMAIN recommendations :
                     recommendations[i] \in LevelRecommendations(in.risk_level)

\* "High Risk", score 100, sector "RETAIL": all five recommendations
C14_Witness ==
    /\ RecommendationsReturned
    /\ call.args[1].risk_level = "High Risk"
    /\ call.args[1].score = 1000000
    /\ call.args[1].sector = <<"R","E","T","A","I","L">>
    /\ Len(call.ret[1]) = 5

-----------------------------------------------------------------------------
(* Lookup by id of a persisted evaluation (Spec) *)

\* <<q, r>>: evaluate request q was answered 200 and its record was
\* persisted with the id that get_evaluation request r looked up and found
LookedUp ==
    { x \in Evaluated \X workload.slots :
        /\ req[x[1]].inserted # None
        /\ req[x[2]].handler = "get_evaluation"
        /\ Some(req[x[2]].req[1].evaluation_id) = req[x[1]].inserted
        /\ req[x[2]].response # None
        /\ req[x[2]].response[1].status = 200 }

\* what a lookup response carries as the explanations
ExplanationsIn(response) ==
    IF "explanations" \in DOMAIN response
    THEN response.explanations
    ELSE response.explanations_json

\* C15 as stated: a GET /api/evaluations/i of a record persisted with id i
\* returns the same score, risk level, sector and explanations as the
\* evaluate response (and request) of that record, and an equal
\* recommendations list.
C15_LookupEqualsEvaluateResponse ==
    \A x \in LookedUp :
        LET evaluated == req[x[1]].response[1]
            looked == req[x[2]].response[1]
        IN  /\ looked.risk_score = evaluated.score
            /\ looked.recommendation = evaluated.recommendation
            /\ looked.sector = req[x[1]].req[1].sector
            /\ ExplanationsIn(looked) = evaluated.explanations
            /\ looked.recommendations = evaluated.recommendations

\* C15 amended: a GET /api/evaluations/i of a record persisted with id i
\* returns the score (risk_score) and risk level (recommendation) of the
\* evaluate response, the sector of the evaluate request, and a
\* recommendations list equal to the evaluate response's; it has no
\* explanations field: it carries the explanations as the JSON text
\* explanations_json, which decodes to the evaluate response's list.
C15_LookupCarriesSerializedExplanations ==
    \A x \in LookedUp :
        LET evaluated == req[x[1]].response[1]
            looked == req[x[2]].response[1]
        IN  /\ looked.risk_score = evaluated.score
            /\ looked.recommendation = evaluated.recommendation
            /\ looked.sector = req[x[1]].req[1].sector
            /\ "explanations" \notin DOMAIN looked
            /\ looked.explanations_json # evaluated.explanations
            /\ json_loads(looked.explanations_json) = evaluated.explanations
            /\ looked.recommendations = evaluated.recommendations

\* the record of the "Oil" request, persisted with id 1 and looked up
C15_Witness ==
    \E x \in LookedUp :
        /\ req[x[1]].req[1].sector = <<"O","i","l">>
        /\ req[x[1]].response[1].evaluation_id = Some(1)
        /\ req[x[2]].response[1].id = 1
        /\ Len(req[x[2]].response[1].recommendations) = 4

-----------------------------------------------------------------------------
(* The record store across interleaved requests (Spec) *)

\* request r takes a step
Steps(r) == req'[r] # req[r]

\* request r is, or with this step becomes, a lookup: by id, by company, or
\* the health check
IsLookup(r) ==
    {req[r].handler, req'[r].handler}
        \cap {"get_evaluation", "get_company_evaluations", "health_check"}
      # {}

\* C16: in every step of every interleaving of evaluate and lookup
\* requests, each stored record stays in the store with every field as it
\* was, the stored records have pairwise distinct ids, a step of a lookup
\* (by id, by company, health) leaves the store unchanged, and a step that
\* changes the store is a step of an evaluate request that adds one record
\* at the end.
C16_RecordsDistinctAndImmutable ==
    [][/\ \A i \in DOMAIN store :
              i \in DOMAIN store' /\ store'[i] = store[i]
       /\ \A i, j \in DOMAIN store' :
              /\ store'[i].id # None
              /\ i # j => store'[i].id # store'[j].id
       /\ \A r \in workload.slots :
              (Steps(r) /\ IsLookup(r)) => store' = store
       /\ store' # store
              => /\ Len(store') = Len(store) + 1
                 /\ \E r \in workload.slots :
                       /\ Steps(r)
                       /\ req[r].handler = "evaluate_risk"
                       /\ store'[Len(store')].id = req'[r].inserted]_vars

\* two evaluate requests of the same company have both stored a record,
\* with ids 1 and 2
C16_Witness ==
    /\ Len(store) = 2
    /\ store[1].id = Some(1)
    /\ store[2].id = Some(2)
    /\ store[1].company_name = store[2].company_name
    /\ \A r \in workload.slots : req[r].inserted # None

-----------------------------------------------------------------------------
(* Sessions of get_db (SpecLive) *)

\* request r has begun and has not completed
InFlight(r) == req[r].pc \notin {"idle", "done"}

\* C17: every request that has acquired a session through get_db
\* eventually releases it, whatever its exit (200, 404, 500, storage
\* failure); a request in flight holds its session and can always take its
\* next step, whatever the other requests do; a request inserts at most
\* one record; and when no request is in flight no session is open.
C17_SessionsAreReleased ==
    /\ \A r \in 1..MaxReq :
          (req[r].session = "open") ~> (req[r].session = "closed")
    /\ [](\A r \in 1..MaxReq :
            /\ InFlight(r) => (req[r].session = "open" /\ ENABLED Run(r))
            /\ req[r].pc = "done" => req[r].session # "open")
    /\ []((\A r \in 1..MaxReq : ~InFlight(r))
            => (\A r \in 1..MaxReq : req[r].session # "open"))
    /\ [][\A r \in 1..MaxReq :
            (req'[r] # req[r] /\ store' # store)
               => /\ Len(store') = Len(store) + 1
                  /\ req[r].inserted = None
                  /\ req'[r].inserted # None]_vars

\* all requests have completed, one with the 500 after a failed rollback
\* and one with a 404, and their sessions are closed
C17_Witness ==
    /\ \A r \in workload.slots : req[r].pc = "done"
    /\ \E r, q \in workload.slots :
          /\ req[r].response = Some(ComputationFailure)
          /\ req[r].session = "closed"
          /\ req[q].response = Some(NotFound)
          /\ req[q].session = "closed"

-----------------------------------------------------------------------------
=============================================================================
